---- MODULE Spec2Model ----
(***************************************************************************)
(* Database-backed event queue of dental_agents: the agent_events table    *)
(* (src/db.py), the idempotency locks, and the worker control loop         *)
(* (src/worker.py).  Time is the database clock NOW() in whole seconds.    *)
(***************************************************************************)
EXTENDS Integers, Sequences, FiniteSets, TLC

VARIABLES
    events,      \* agent_events: sequence of rows, the index is the AUTO_INCREMENT id
    locks,       \* idempotency_locks: set of rows [lock_key, locked_by, expires_at]
    now,         \* NOW() of the database, seconds
    pc,          \* per worker: position in run_loop
    cur,         \* per worker: id of the row selected / claimed, or NULL
    failures,    \* history: per event id, the error texts passed to mark_failed, in order
    lk_last,     \* history: the last claim(key, ttl) call and what it returned
    bk_attempts, \* backoff sequence of one event: current attempts count
    bk_delay,    \* backoff sequence: delay computed for bk_attempts, or NULL
    bk_prev,     \* backoff sequence: delay computed for the previous failure, or NULL
    runs,        \* agent_runs: per event id, the rows logged for it, in insertion order
    fault,       \* history: the store operations that raised in the last worker step
    avail_default, \* schema: an INSERT binding NULL to available_at gets the column default
    tx,          \* the open transaction of a producer: its domain write and its event row
    tx_n,        \* number of producer transactions begun
    tx_rolled,   \* history: the domain writes of the transactions rolled back
    domain,      \* domain rows of producers, committed
    runs_table,  \* schema: the agent_runs table exists
    enq_last,    \* history: the last enqueue_event call of EnqueueCall and its result
    hk,          \* per worker: handlers of the claimed event that have returned
    calls,       \* history: per event id, per attempt, the handlers invoked, in order
    parsed,      \* history: per event id, the payload passed to _dispatch at each attempt
    uncommitted, \* per worker: the writes handlers made on its connection, not yet committed
    hwrites,     \* the writes of handlers, committed
    ins          \* the INSERT enqueue_event builds for a table with some optional columns

vars == <<events, locks, now, pc, cur, failures, lk_last, bk_attempts, bk_delay, bk_prev,
          runs, fault, avail_default, tx, tx_n, tx_rolled, domain,
          runs_table, enq_last, hk, calls, parsed, uncommitted, hwrites, ins>>

\* the schema flag and the producer transaction
\* the run-log table flag, the enqueue history and the dispatch position
auxVars == <<runs_table, enq_last, hk, calls, parsed, uncommitted, hwrites, ins>>

envVars == <<avail_default, tx, tx_n, tx_rolled, domain, auxVars>>

\* SQL NULL / Python None
NULL == 0 - 1

-----------------------------------------------------------------------------
(* Bounds of the model *)

NumWorkers == 2
MaxEvents == 2
MaxTime == 30
NumErrorTexts == 1
MaxBackoffN == 30

Workers == 1..NumWorkers
ErrorTexts == 1..NumErrorTexts

\* The clock advances in steps of this many seconds
TickSteps == {10}

-----------------------------------------------------------------------------
(* Deployment configuration, dental_agents/config.py *)

\* lease TTL in seconds
LOCK_TTL_SECONDS == 20

\* default of max_attempts
MAX_EVENT_ATTEMPTS == 2

-----------------------------------------------------------------------------
(* Inputs of producers *)

ProducerStatuses == {"NEW", "PENDING"}
ProducerPriorities == {5, 10}
ProducerMaxAttempts == {NULL, 1}
ProducerEventTypes == {"AppointmentCreated"}
\* run_at: None, the present second, or a later one
ProducerRunAts(t) == {NULL, t, t + 10}

-----------------------------------------------------------------------------
(* src/db.py *)

Min(a, b) == IF a <= b THEN a ELSE b
Max(a, b) == IF a >= b THEN a ELSE b

Ids(evs) == 1..Len(evs)

\* enqueue_event: the INSERT.  The row gets attempts 0, no lease, and
\* available_at = run_at.  agent_events.available_at is DATETIME NOT NULL
\* (ensure_schema), so a single-row INSERT binding NULL to it is refused by
\* the server: the call raises and no row is added.  On a table whose
\* available_at column takes its default for a NULL ("DB default may apply
\* depending on schema") the row is added with available_at = NOW().
EnqueueRaises(run_at) == run_at = NULL /\ ~avail_default

NewRow(event_type, payload, status, priority, run_at, max_attempts, t) ==
    [ event_type   |-> event_type,
      payload      |-> payload,
      status       |-> status,
      priority     |-> priority,
      attempts     |-> 0,
      max_attempts |-> IF max_attempts = NULL \/ max_attempts = 0
                       THEN MAX_EVENT_ATTEMPTS ELSE max_attempts,
      available_at |-> IF run_at = NULL THEN t ELSE run_at,
      locked_by    |-> NULL,
      locked_at    |-> NULL,
      last_error   |-> NULL,
      done_at      |-> NULL,
      created_at   |-> t ]

enqueue_event(evs, event_type, payload, status, priority, run_at, max_attempts, t) ==
    IF EnqueueRaises(run_at)
    THEN [raised |-> TRUE, events |-> evs, id |-> NULL]
    ELSE [raised |-> FALSE,
          events |-> Append(evs, NewRow(event_type, payload, status, priority,
                                        run_at, max_attempts, t)),
          id     |-> Len(evs) + 1]

\* a status filter that also lets finished rows through
StatusClaimable_WithDone(row) == row.status \in {"NEW", "PENDING", "DONE"}

\* a status filter that also lets rows being processed through
StatusClaimable_WithProcessing(row) == row.status \in {"NEW", "PENDING", "PROCESSING"}

\* a status filter that only leaves out rows being processed
StatusClaimable_AnyIdle(row) == row.status # "PROCESSING"

\* lock_next_event: the WHERE clause of the SELECT
StatusClaimable(row) == row.status \in {"NEW", "PENDING"}

LeaseFree(row, t) ==
    row.locked_at = NULL \/ row.locked_at < t - LOCK_TTL_SECONDS

\* the WHERE clause built when the available_at column is taken to be absent
IsCandidate_NoAvailableAt(row, t) ==
    /\ StatusClaimable(row)
    /\ LeaseFree(row, t)

IsCandidate(row, t) ==
    /\ StatusClaimable(row)
    /\ row.available_at <= t
    /\ LeaseFree(row, t)

\* ORDER BY id ASC alone
Precedes_IdOnly(evs, i, j) == i <= j

\* lock_next_event: ORDER BY priority ASC, id ASC
Precedes(evs, i, j) ==
    \/ evs[i].priority < evs[j].priority
    \/ (evs[i].priority = evs[j].priority /\ i <= j)

Candidates(evs, t) == {i \in Ids(evs) : IsCandidate(evs[i], t)}

\* lock_next_event: LIMIT 1
FirstCandidate(evs, t) ==
    CHOOSE i \in Candidates(evs, t) : \A j \in Candidates(evs, t) : Precedes(evs, i, j)

\* a plain SELECT, which takes no row lock
RowLockedByOther_NoForUpdate(w, i) == FALSE

\* lock_next_event: FOR UPDATE.  A row selected FOR UPDATE by a transaction
\* that has not committed yet is row-locked; another locking read waits.
RowLockedByOther(w, i) ==
    \E v \in Workers : v # w /\ pc[v] = "claim" /\ cur[v] = i

\* an UPDATE that also makes the row available from now
ClaimRow_ResetsAvailableAt(row, w, t) ==
    [row EXCEPT !.status = "PROCESSING",
                !.attempts = row.attempts + 1,
                !.locked_by = w,
                !.locked_at = t,
                !.available_at = t]

\* an UPDATE that takes the lease and leaves the status as it was
ClaimRow_KeepsStatus(row, w, t) ==
    [row EXCEPT !.attempts = row.attempts + 1,
                !.locked_by = w,
                !.locked_at = t]

\* lock_next_event: the UPDATE that claims the row
ClaimRow(row, w, t) ==
    [row EXCEPT !.status = "PROCESSING",
                !.attempts = row.attempts + 1,
                !.locked_by = w,
                !.locked_at = t]

\* an UPDATE that also empties the payload of the finished event
mark_done_ClearsPayload(evs, id, t) ==
    [evs EXCEPT ![id] = [@ EXCEPT !.status = "DONE",
                                  !.done_at = t,
                                  !.locked_by = NULL,
                                  !.locked_at = NULL,
                                  !.payload = NULL]]

\* an UPDATE that also clears last_error
mark_done_ClearsLastError(evs, id, t) ==
    [evs EXCEPT ![id] = [@ EXCEPT !.status = "DONE",
                                  !.done_at = t,
                                  !.locked_by = NULL,
                                  !.locked_at = NULL,
                                  !.last_error = NULL]]

\* an UPDATE that leaves the lease columns as they were
mark_done_KeepsLease(evs, id, t) ==
    [evs EXCEPT ![id] = [@ EXCEPT !.status = "DONE",
                                  !.done_at = t]]

\* mark_done
mark_done(evs, id, t) ==
    [evs EXCEPT ![id] = [@ EXCEPT !.status = "DONE",
                                  !.done_at = t,
                                  !.locked_by = NULL,
                                  !.locked_at = NULL]]

\* the backoff without its 600 second cap
Backoff_NoCap(attempts) == Max(10, (2 ^ Min(attempts, 8)) * 5)

\* mark_failed: backoff = min(600, max(10, (2 ** min(attempts, 8)) * 5))
Backoff(attempts) == Min(600, Max(10, (2 ^ Min(attempts, 8)) * 5))

\* attempts > max_attempts
Exhausted_OffByOne(attempts, max_attempts) == attempts > max_attempts

\* mark_failed: attempts >= max_attempts
Exhausted(attempts, max_attempts) == attempts >= max_attempts

\* an except block that records the error and leaves the row claimed
mark_failed_KeepsProcessing(evs, id, error_text, t) ==
    [evs EXCEPT ![id] = [@ EXCEPT !.last_error = error_text]]

\* a retry branch that leaves available_at as it was
mark_failed_NoDelay(evs, id, error_text, t) ==
    LET attempts == evs[id].attempts
        max_attempts == IF evs[id].max_attempts = 0
                        THEN MAX_EVENT_ATTEMPTS ELSE evs[id].max_attempts
    IN  IF Exhausted(attempts, max_attempts)
        THEN [evs EXCEPT ![id] = [@ EXCEPT !.status = "FAILED",
                                           !.last_error = error_text,
                                           !.locked_by = NULL,
                                           !.locked_at = NULL]]
        ELSE [evs EXCEPT ![id] = [@ EXCEPT !.status = "NEW",
                                           !.last_error = error_text,
                                           !.locked_by = NULL,
                                           !.locked_at = NULL]]

mark_failed(evs, id, error_text, t) ==
    LET attempts == evs[id].attempts
        max_attempts == IF evs[id].max_attempts = 0
                        THEN MAX_EVENT_ATTEMPTS ELSE evs[id].max_attempts
    IN  IF Exhausted(attempts, max_attempts)
        THEN [evs EXCEPT ![id] = [@ EXCEPT !.status = "FAILED",
                                           !.last_error = error_text,
                                           !.locked_by = NULL,
                                           !.locked_at = NULL]]
        ELSE [evs EXCEPT ![id] = [@ EXCEPT !.status = "NEW",
                                           !.last_error = error_text,
                                           !.locked_by = NULL,
                                           !.locked_at = NULL,
                                           !.available_at = t + Backoff(attempts)]]

\* log_run: the row inserted into agent_runs
RunRow(status, error_text) ==
    [actor |-> "worker", status |-> status, error_text |-> error_text]

log_run(rns, event_id, status, error_text) ==
    [rns EXCEPT ![event_id] = Append(@, RunRow(status, error_text))]

-----------------------------------------------------------------------------
(* dental_agents/idempotency.py: claim(conn, key, ttl_seconds) *)

LockRows(lk, key) == {r \in lk : r.lock_key = key}

\* a claim that never finds the lock held
ClaimSucceeds_Always(lk, key, t) == TRUE

\* the claim fails when a row for the key exists and expires_at > now
ClaimSucceeds(lk, key, t) == \A r \in LockRows(lk, key) : r.expires_at <= t

claim(lk, key, ttl_seconds, w, t) ==
    IF ClaimSucceeds(lk, key, t)
    THEN [ok |-> TRUE,
          locks |-> (lk \ LockRows(lk, key)) \cup
                    {[lock_key |-> key, locked_by |-> w, expires_at |-> t + ttl_seconds]}]
    ELSE [ok |-> FALSE, locks |-> lk]

-----------------------------------------------------------------------------
(* src/worker.py *)

\* _enqueue_periodics: the triggers, in the order they are tried
Periodics == <<
    [key |-> "cron:minute:appt_monitor", ttl |-> 55,
     event_type |-> "AppointmentMonitorTick", payload |-> 0],
    [key |-> "cron:hour:inventory",      ttl |-> 3600,
     event_type |-> "InventoryDailyTick",     payload |-> 30],
    [key |-> "cron:hour:revenue",        ttl |-> 3600,
     event_type |-> "RevenueDailyTick",       payload |-> 0] >>

\* triggers that enqueue their event whatever claim returned
RECURSIVE EnqueuePeriodicsFrom_NoClaimCheck(_, _, _, _)
EnqueuePeriodicsFrom_NoClaimCheck(st, k, w, t) ==
    IF st.raised \/ k > Len(Periodics) THEN st
    ELSE LET c == claim(st.locks, Periodics[k].key, Periodics[k].ttl, w, t)
             e == enqueue_event(st.events, Periodics[k].event_type, Periodics[k].payload,
                                "NEW", 10, NULL, NULL, t)
         IN  EnqueuePeriodicsFrom_NoClaimCheck(
                 [raised |-> e.raised, events |-> e.events, locks |-> c.locks],
                 k + 1, w, t)

\* _enqueue_periodics on the transaction's view st = [raised, events, locks],
\* from trigger k on.  enqueue_event is called without run_at and without
\* max_attempts; an exception leaves the remaining triggers untried.
RECURSIVE EnqueuePeriodicsFrom(_, _, _, _)
EnqueuePeriodicsFrom(st, k, w, t) ==
    IF st.raised \/ k > Len(Periodics) THEN st
    ELSE LET c == claim(st.locks, Periodics[k].key, Periodics[k].ttl, w, t)
             e == enqueue_event(st.events, Periodics[k].event_type, Periodics[k].payload,
                                "NEW", 10, NULL, NULL, t)
         IN  IF c.ok
             THEN EnqueuePeriodicsFrom(
                      [raised |-> e.raised, events |-> e.events, locks |-> c.locks],
                      k + 1, w, t)
             ELSE EnqueuePeriodicsFrom(st, k + 1, w, t)

\* a step 1 in which every claim commits by itself, whatever comes after it
_enqueue_periodics_ClaimCommits(evs, lk, w, t) ==
    LET st == EnqueuePeriodicsFrom([raised |-> FALSE, events |-> evs, locks |-> lk], 1, w, t)
    IN  IF st.raised THEN [raised |-> FALSE, events |-> evs, locks |-> st.locks] ELSE st

_enqueue_periodics(evs, lk, w, t) ==
    EnqueuePeriodicsFrom([raised |-> FALSE, events |-> evs, locks |-> lk], 1, w, t)

\* event types that start with "Inventory" and with "Revenue"
InventoryPrefixed == {"InventoryDailyTick", "InventoryLowStock"}
RevenuePrefixed == {"RevenueDailyTick", "RevenueInvoiceOverdue"}

\* a router that hands every unmatched event type to the case-tracking agent
_dispatch_DefaultHandler(event_type) ==
    IF event_type = "AppointmentCreated" THEN <<"APPT", "REV">>
    ELSE IF event_type = "AppointmentCompleted" THEN <<"APPT", "INV", "REV", "CASE">>
    ELSE IF event_type \in {"AppointmentAutoScheduleRequested", "AppointmentMonitorTick"}
         THEN <<"APPT">>
    ELSE IF event_type \in InventoryPrefixed THEN <<"INV">>
    ELSE IF event_type \in RevenuePrefixed \cup {"ARRankAndNotify"} THEN <<"REV">>
    ELSE <<"CASE">>

\* a router that calls the revenue agent before the others
_dispatch_RevenueFirst(event_type) ==
    IF event_type = "AppointmentCreated" THEN <<"REV", "APPT">>
    ELSE IF event_type = "AppointmentCompleted" THEN <<"REV", "APPT", "INV", "CASE">>
    ELSE <<>>

\* _dispatch: the handlers called for an event type, in the order of the calls;
\* an event type that matches no branch gets none
\* a router whose appointment branch does not list the monitor tick
_dispatch_NoMonitorTick(event_type) ==
    IF event_type = "AppointmentCreated" THEN <<"APPT", "REV">>
    ELSE IF event_type = "AppointmentCompleted" THEN <<"APPT", "INV", "REV", "CASE">>
    ELSE IF event_type \in {"CaseUpdated", "CaseGenerateSummary"} THEN <<"CASE">>
    ELSE IF event_type = "AppointmentAutoScheduleRequested" THEN <<"APPT">>
    ELSE IF event_type \in InventoryPrefixed THEN <<"INV">>
    ELSE IF event_type \in RevenuePrefixed \cup {"ARRankAndNotify"} THEN <<"REV">>
    ELSE <<>>

_dispatch(event_type) ==
    IF event_type = "AppointmentCreated" THEN <<"APPT", "REV">>
    ELSE IF event_type = "AppointmentCompleted" THEN <<"APPT", "INV", "REV", "CASE">>
    ELSE IF event_type \in {"CaseUpdated", "CaseGenerateSummary"} THEN <<"CASE">>
    ELSE IF event_type \in {"AppointmentAutoScheduleRequested", "AppointmentMonitorTick"}
         THEN <<"APPT">>
    ELSE IF event_type \in InventoryPrefixed THEN <<"INV">>
    ELSE IF event_type \in RevenuePrefixed \cup {"ARRankAndNotify"} THEN <<"REV">>
    ELSE <<>>

\* the attempts recorded in c for event i
CallsIn(c, i) == IF i \in DOMAIN c THEN c[i] ELSE <<>>

\* c with handler name recorded as the next call of the attempt on event i;
\* first tells that the attempt has called no handler before
RecordCall(c, i, name, first) ==
    LET cl == CallsIn(c, i)
    IN  (i :> (IF first THEN Append(cl, <<name>>)
               ELSE [cl EXCEPT ![Len(cl)] = Append(@, name)])) @@ c

\* c with an attempt on event i that called no handler
RecordNoCall(c, i) == (i :> Append(CallsIn(c, i), <<>>)) @@ c

\* fault when no store operation raised
NoFault == [at |-> "none", then |-> "none"]

\* the text captured from an exception of the database driver
StoreErrorTexts == {NumErrorTexts + 1}

\* run_loop step 1: _enqueue_periodics, then commit; rollback on an exception
PeriodicStep(w) ==
    /\ pc[w] = "periodics"
    /\ LET st == _enqueue_periodics(events, locks, w, now)
       IN  /\ events' = IF st.raised THEN events ELSE st.events
           /\ locks' = IF st.raised THEN locks ELSE st.locks
           /\ failures' = IF st.raised THEN failures
                          ELSE failures \o [i \in 1..(Len(st.events) - Len(events)) |-> <<>>]
           /\ runs' = IF st.raised THEN runs
                      ELSE runs \o [i \in 1..(Len(st.events) - Len(events)) |-> <<>>]
    /\ pc' = [pc EXCEPT ![w] = "lock"]
    /\ fault' = NoFault
    /\ UNCHANGED <<now, cur, lk_last, bk_attempts, bk_delay, bk_prev, envVars>>

\* run_loop step 2, first half: the SELECT ... FOR UPDATE of lock_next_event.
\* With no candidate the call returns None, the worker sleeps and starts over.
LockSelect(w) ==
    /\ pc[w] = "lock"
    /\ IF Candidates(events, now) = {}
       THEN /\ pc' = [pc EXCEPT ![w] = "periodics"]
            /\ UNCHANGED cur
       ELSE /\ ~RowLockedByOther(w, FirstCandidate(events, now))
            /\ cur' = [cur EXCEPT ![w] = FirstCandidate(events, now)]
            /\ pc' = [pc EXCEPT ![w] = "claim"]
    /\ fault' = NoFault
    /\ UNCHANGED <<events, locks, now, failures, lk_last, bk_attempts, bk_delay, bk_prev,
                   runs, envVars>>

\* run_loop step 2, second half: the UPDATE of lock_next_event and the commit
LockUpdate(w) ==
    /\ pc[w] = "claim"
    /\ events' = [events EXCEPT ![cur[w]] = ClaimRow(@, w, now)]
    /\ pc' = [pc EXCEPT ![w] = "process"]
    /\ fault' = NoFault
    /\ UNCHANGED <<locks, now, cur, failures, lk_last, bk_attempts, bk_delay, bk_prev,
                   runs, envVars>>

\* run_loop step 3 on the committed rows evs, rns: the try block (log_run
\* STARTED, _dispatch, mark_done, log_run DONE, commit) and its except block
\* (mark_failed, log_run FAILED, commit; rollback when one of these raises).
\* h is the exception _dispatch raises, or NULL; se the text of a store
\* exception; f1 the statement of the try block that raises a store exception,
\* f2 that of the except block, or "none".  error is the text passed to a
\* committed mark_failed, or NULL.
process_event(evs, rns, id, h, se, f1, f2, t) ==
    LET started == f1 # "log_run STARTED"
        r1 == IF started THEN log_run(rns, id, "STARTED", NULL) ELSE rns
        marked == started /\ h = NULL /\ f1 # "mark_done"
        e1 == IF marked THEN mark_done(evs, id, t) ELSE evs
        logged == marked /\ f1 # "log_run DONE"
        r2 == IF logged THEN log_run(r1, id, "DONE", NULL) ELSE r1
        exc == IF ~started THEN se
               ELSE IF h # NULL THEN h
               ELSE IF f1 # "none" THEN se ELSE NULL
    IN  IF exc = NULL
        THEN [events |-> e1, runs |-> r2, error |-> NULL]
        ELSE IF f2 # "none"
        THEN [events |-> evs, runs |-> rns, error |-> NULL]
        ELSE [events |-> mark_failed(e1, id, exc, t),
              runs   |-> log_run(r2, id, "FAILED", exc),
              error  |-> exc]

\* run_loop step 3, no handler raises and every store operation succeeds
ProcessDone(w) ==
    /\ pc[w] = "process"
    /\ runs_table
    /\ LET r == process_event(events, runs, cur[w], NULL, NULL, "none", "none", now)
       IN  /\ events' = r.events
           /\ runs' = r.runs
    /\ pc' = [pc EXCEPT ![w] = "periodics"]
    /\ cur' = [cur EXCEPT ![w] = NULL]
    /\ fault' = NoFault
    /\ UNCHANGED <<locks, now, failures, lk_last, bk_attempts, bk_delay, bk_prev, envVars>>

\* run_loop step 3, a handler raises err and every store operation succeeds
ProcessFailed(w, err) ==
    /\ pc[w] = "process"
    /\ runs_table
    /\ LET r == process_event(events, runs, cur[w], err, NULL, "none", "none", now)
       IN  /\ events' = r.events
           /\ runs' = r.runs
           /\ failures' = [failures EXCEPT ![cur[w]] = Append(@, r.error)]
    /\ pc' = [pc EXCEPT ![w] = "periodics"]
    /\ cur' = [cur EXCEPT ![w] = NULL]
    /\ fault' = NoFault
    /\ UNCHANGED <<locks, now, lk_last, bk_attempts, bk_delay, bk_prev, envVars>>

\* the write a handler makes on the worker's connection for an attempt
HandlerWrite(id, attempt, name) == [event |-> id, attempt |-> attempt, handler |-> name]

\* an except block that rolls back before it calls mark_failed
FailureCommits_RollbackFirst(ws) == {}

\* the except block of step 3 calls mark_failed and log_run on the
\* transaction the handlers wrote in, and commits: the writes ws made so far
\* become durable
FailureCommits(ws) == {ws[n] : n \in 1..Len(ws)}

\* run_loop step 3, one call of _dispatch at a time: the next handler of the
\* claimed event is called; it returns (h = NULL) or raises h.  When it raises
\* the rest of _dispatch is skipped and the except block runs.
InvokeHandler(w, h) ==
    /\ pc[w] = "process"
    /\ runs_table
    /\ hk[w] < Len(_dispatch(events[cur[w]].event_type))
    /\ calls' = RecordCall(calls, cur[w], _dispatch(events[cur[w]].event_type)[hk[w] + 1],
                           hk[w] = 0)
    /\ IF h = NULL
       THEN /\ hk' = [hk EXCEPT ![w] = @ + 1]
            /\ uncommitted' = [uncommitted EXCEPT ![w] =
                                  Append(@, HandlerWrite(cur[w], events[cur[w]].attempts,
                                      _dispatch(events[cur[w]].event_type)[hk[w] + 1]))]
            /\ UNCHANGED <<events, runs, failures, pc, cur, fault, hwrites>>
       ELSE /\ LET r == process_event(events, runs, cur[w], h, NULL, "none", "none", now)
               IN  /\ events' = r.events
                   /\ runs' = r.runs
                   /\ failures' = [failures EXCEPT ![cur[w]] = Append(@, r.error)]
            /\ hwrites' = hwrites \cup FailureCommits(uncommitted[w])
            /\ uncommitted' = [uncommitted EXCEPT ![w] = <<>>]
            /\ pc' = [pc EXCEPT ![w] = "periodics"]
            /\ cur' = [cur EXCEPT ![w] = NULL]
            /\ hk' = [hk EXCEPT ![w] = 0]
            /\ fault' = NoFault
    /\ UNCHANGED <<locks, now, lk_last, bk_attempts, bk_delay, bk_prev,
                   avail_default, tx, tx_n, tx_rolled, domain, runs_table, enq_last,
                   parsed, ins>>

\* run_loop step 3, _dispatch has returned: mark_done, log_run DONE, commit
DispatchReturn(w) ==
    /\ pc[w] = "process"
    /\ runs_table
    /\ hk[w] = Len(_dispatch(events[cur[w]].event_type))
    /\ LET r == process_event(events, runs, cur[w], NULL, NULL, "none", "none", now)
       IN  /\ events' = r.events
           /\ runs' = r.runs
    /\ calls' = IF hk[w] = 0 THEN RecordNoCall(calls, cur[w]) ELSE calls
    /\ hwrites' = hwrites \cup {uncommitted[w][n] : n \in 1..Len(uncommitted[w])}
    /\ uncommitted' = [uncommitted EXCEPT ![w] = <<>>]
    /\ pc' = [pc EXCEPT ![w] = "periodics"]
    /\ cur' = [cur EXCEPT ![w] = NULL]
    /\ hk' = [hk EXCEPT ![w] = 0]
    /\ fault' = NoFault
    /\ UNCHANGED <<locks, now, failures, lk_last, bk_attempts, bk_delay, bk_prev,
                   avail_default, tx, tx_n, tx_rolled, domain, runs_table, enq_last,
                   parsed, ins>>

\* the statements of step 3 that can raise a store exception
TryFaults == {"none", "log_run STARTED", "mark_done", "log_run DONE"}
ExceptFaults == {"none", "mark_failed", "log_run FAILED"}

\* run_loop step 3 with a store operation raising: f1 in the try block (the
\* handlers are not reached when it is log_run STARTED), f2 in the except block.
\* Without the agent_runs table every log_run raises: the first statement
\* of the try block does, and the except block gets no further than its log_run.
ProcessStoreFault(w, h, se, f1, f2) ==
    /\ pc[w] = "process"
    /\ ~runs_table => (f1 = "log_run STARTED" /\ f2 # "none")
    /\ f1 # "none" \/ f2 # "none"
    /\ h # NULL => f1 = "none"
    /\ f2 # "none" => (h # NULL \/ f1 # "none")
    /\ LET r == process_event(events, runs, cur[w], h, se, f1, f2, now)
       IN  /\ events' = r.events
           /\ runs' = r.runs
           /\ failures' = IF r.error = NULL THEN failures
                          ELSE [failures EXCEPT ![cur[w]] = Append(@, r.error)]
    /\ pc' = [pc EXCEPT ![w] = "periodics"]
    /\ cur' = [cur EXCEPT ![w] = NULL]
    /\ fault' = [at |-> IF f1 # "none" THEN f1 ELSE "_dispatch", then |-> f2]
    /\ UNCHANGED <<locks, now, lk_last, bk_attempts, bk_delay, bk_prev, envVars>>

\* run_loop step 1 with claim or enqueue_event raising a store exception:
\* rollback, and the loop goes on to step 2
PeriodicStoreFault(w) ==
    /\ pc[w] = "periodics"
    /\ pc' = [pc EXCEPT ![w] = "lock"]
    /\ fault' = [at |-> "_enqueue_periodics", then |-> "none"]
    /\ UNCHANGED <<events, locks, now, cur, failures, lk_last, bk_attempts, bk_delay,
                   bk_prev, runs, envVars>>

\* run_loop step 2 with lock_next_event or its commit raising: rollback,
\* row = None, sleep, next iteration
LockStoreFault(w) ==
    /\ pc[w] \in {"lock", "claim"}
    /\ pc' = [pc EXCEPT ![w] = "periodics"]
    /\ cur' = [cur EXCEPT ![w] = NULL]
    /\ fault' = [at |-> "lock_next_event", then |-> "none"]
    /\ UNCHANGED <<events, locks, now, failures, lk_last, bk_attempts, bk_delay,
                   bk_prev, runs, envVars>>

\* The worker process dies.  An open transaction is rolled back by the server
\* (the row lock of a pending claim is released); committed rows stay.
Crash(w) ==
    /\ pc[w] # "crashed"
    /\ \E v \in Workers : v # w /\ pc[v] # "crashed"
    /\ pc' = [pc EXCEPT ![w] = "crashed"]
    /\ cur' = [cur EXCEPT ![w] = IF pc[w] = "process" THEN cur[w] ELSE NULL]
    /\ UNCHANGED <<events, locks, now, failures, lk_last, bk_attempts, bk_delay, bk_prev,
                   runs, fault, envVars>>

-----------------------------------------------------------------------------
(* Environment *)

\* A producer calls enqueue_event and commits
Produce(cap, event_type, payload, status, priority, run_at, max_attempts) ==
    /\ Len(events) < cap
    /\ LET e == enqueue_event(events, event_type, payload, status, priority, run_at,
                              max_attempts, now)
       IN  /\ events' = e.events
           /\ failures' = IF e.raised THEN failures ELSE Append(failures, <<>>)
           /\ runs' = IF e.raised THEN runs ELSE Append(runs, <<>>)
    /\ UNCHANGED <<locks, now, pc, cur, lk_last, bk_attempts, bk_delay, bk_prev,
                   fault, envVars>>

\* the database clock advances by one of steps, up to max
Advance(steps, max) ==
    /\ \E d \in steps : now + d <= max /\ now' = now + d
    /\ UNCHANGED <<events, locks, pc, cur, failures, lk_last, bk_attempts, bk_delay, bk_prev,
                   runs, fault, envVars>>

Tick == Advance(TickSteps, MaxTime)

-----------------------------------------------------------------------------
(* The queue with its workers *)

\* lk_last before any claim call
NoCall == [key |-> "", ttl |-> 0, by |-> NULL, at |-> NULL, ok |-> FALSE]

\* ins while no INSERT is being built
NoInsert == [built |-> FALSE]

\* enq_last before any recorded enqueue_event call
NoEnqueue == [called |-> FALSE]

\* tx when no producer transaction is open
NoTx == [open |-> FALSE, write |-> NULL, events |-> <<>>]

\* Empty tables after ensure_schema; d tells whether the agent_events table of
\* the deployment takes the column default for a NULL available_at, rt whether
\* the agent_runs table is there
InitSchema(d, rt) ==
    /\ events = <<>>
    /\ locks = {}
    /\ now = 0
    /\ pc = [w \in Workers |-> "periodics"]
    /\ cur = [w \in Workers |-> NULL]
    /\ failures = <<>>
    /\ lk_last = NoCall
    /\ bk_attempts = 0
    /\ bk_delay = NULL
    /\ bk_prev = NULL
    /\ runs = <<>>
    /\ fault = NoFault
    /\ avail_default = d
    /\ tx = NoTx
    /\ tx_n = 0
    /\ tx_rolled = {}
    /\ domain = {}
    /\ runs_table = rt
    /\ enq_last = NoEnqueue
    /\ hk = [w \in Workers |-> 0]
    /\ calls = <<>>
    /\ parsed = <<>>
    /\ uncommitted = [w \in Workers |-> <<>>]
    /\ hwrites = {}
    /\ ins = NoInsert

\* the table as ensure_schema creates it: available_at DATETIME NOT NULL
Init == InitSchema(FALSE, TRUE)

Enqueue ==
    \E ty \in ProducerEventTypes, s \in ProducerStatuses, p \in ProducerPriorities,
       m \in ProducerMaxAttempts :
        \E r \in ProducerRunAts(now) : Produce(MaxEvents, ty, 0, s, p, r, m)

Next ==
    \/ Enqueue
    \/ Tick
    \/ \E w \in Workers : PeriodicStep(w)
    \/ \E w \in Workers : LockSelect(w)
    \/ \E w \in Workers : LockUpdate(w)
    \/ \E w \in Workers : ProcessDone(w)
    \/ \E w \in Workers, err \in ErrorTexts : ProcessFailed(w, err)
    \/ \E w \in Workers : Crash(w)

Spec == Init /\ [][Next]_vars

-----------------------------------------------------------------------------
(* The queue with three events that differ in priority only *)

MaxPrioEvents == 3

PrioEnqueue ==
    \E p \in ProducerPriorities :
        Produce(MaxPrioEvents, "AppointmentCreated", 0, "NEW", p, now, NULL)

PrioNext ==
    \/ PrioEnqueue
    \/ Tick
    \/ \E w \in Workers : PeriodicStep(w)
    \/ \E w \in Workers : LockSelect(w)
    \/ \E w \in Workers : LockUpdate(w)
    \/ \E w \in Workers : ProcessDone(w)
    \/ \E w \in Workers, err \in ErrorTexts : ProcessFailed(w, err)

PrioSpec == Init /\ [][PrioNext]_vars

-----------------------------------------------------------------------------
(* The queue with one event, fair workers and a fair clock *)

MaxFairEvents == 1

FairEnqueue ==
    \E m \in ProducerMaxAttempts, r \in {now, now + 10} :
        Produce(MaxFairEvents, "AppointmentCreated", 0, "NEW", 10, r, m)

WorkerStep(w) ==
    \/ PeriodicStep(w)
    \/ LockSelect(w)
    \/ LockUpdate(w)
    \/ ProcessDone(w)
    \/ \E err \in ErrorTexts : ProcessFailed(w, err)

FairNext ==
    \/ FairEnqueue
    \/ Tick
    \/ \E w \in Workers : WorkerStep(w)
    \/ \E w \in Workers : Crash(w)

\* A worker that has not died keeps running its loop, and time advances
FairSpec ==
    /\ Init
    /\ [][FairNext]_vars
    /\ WF_vars(Tick)
    /\ \A w \in Workers : WF_vars(WorkerStep(w))

-----------------------------------------------------------------------------
(* mark_failed's backoff over the consecutive failures of one event *)

BkInit ==
    /\ events = <<>>
    /\ locks = {}
    /\ now = 0
    /\ pc = [w \in Workers |-> "periodics"]
    /\ cur = [w \in Workers |-> NULL]
    /\ failures = <<>>
    /\ lk_last = NoCall
    /\ bk_attempts \in 0..MaxBackoffN
    /\ bk_delay = NULL
    /\ bk_prev = NULL
    /\ runs = <<>>
    /\ fault = NoFault
    /\ avail_default = FALSE
    /\ tx = NoTx
    /\ tx_n = 0
    /\ tx_rolled = {}
    /\ domain = {}
    /\ runs_table = TRUE
    /\ enq_last = NoEnqueue
    /\ hk = [w \in Workers |-> 0]
    /\ calls = <<>>
    /\ parsed = <<>>
    /\ uncommitted = [w \in Workers |-> <<>>]
    /\ hwrites = {}
    /\ ins = NoInsert

\* mark_failed computes the backoff from the row's attempts
BkCompute ==
    /\ bk_delay = NULL
    /\ bk_delay' = Backoff(bk_attempts)
    /\ UNCHANGED <<events, locks, now, pc, cur, failures, lk_last, bk_attempts, bk_prev, runs, fault,
                   envVars>>

\* the event is claimed again (attempts + 1) and fails again
BkNextFailure ==
    /\ bk_delay # NULL
    /\ bk_attempts < MaxBackoffN
    /\ bk_attempts' = bk_attempts + 1
    /\ bk_prev' = bk_delay
    /\ bk_delay' = NULL
    /\ UNCHANGED <<events, locks, now, pc, cur, failures, lk_last, runs, fault,
                   envVars>>

BkNext == BkCompute \/ BkNextFailure

BackoffSpec == BkInit /\ [][BkNext]_vars

-----------------------------------------------------------------------------
(* The idempotency lock under callers that commit each claim *)

LockKeys == {"cron:x", "cron:y"}
LockTtls == {10, 20}

\* claim(key, ttl) by worker w, committed
ClaimCall(w, key, ttl) ==
    /\ LET c == claim(locks, key, ttl, w, now)
       IN  /\ locks' = c.locks
           /\ lk_last' = [key |-> key, ttl |-> ttl, by |-> w, at |-> now, ok |-> c.ok]
    /\ UNCHANGED <<events, now, pc, cur, failures, bk_attempts, bk_delay, bk_prev, runs, fault,
                   envVars>>

LockNext ==
    \/ \E w \in Workers, key \in LockKeys, ttl \in LockTtls : ClaimCall(w, key, ttl)
    \/ Tick

LockSpec == Init /\ [][LockNext]_vars

-----------------------------------------------------------------------------
(* The periodic triggers on a table whose available_at defaults to NOW() *)

MaxTickTime == 60
TickLongSteps == {30}

TickInit == InitSchema(TRUE, TRUE)

TickLong == Advance(TickLongSteps, MaxTickTime)

TickNext ==
    \/ TickLong
    \/ \E w \in Workers : PeriodicStep(w)
    \/ \E w \in Workers : LockSelect(w)
    \/ \E w \in Workers : LockUpdate(w)
    \/ \E w \in Workers : ProcessDone(w)
    \/ \E w \in Workers, err \in ErrorTexts : ProcessFailed(w, err)

TickSpec == TickInit /\ [][TickNext]_vars

-----------------------------------------------------------------------------
(* A producer that writes a domain row and enqueues its event in one transaction *)

MaxTxns == 2

\* the producer's commit makes the domain row and the event row visible
TxCommit ==
    /\ tx.open
    /\ events' = events \o tx.events
    /\ failures' = failures \o [i \in 1..Len(tx.events) |-> <<>>]
    /\ runs' = runs \o [i \in 1..Len(tx.events) |-> <<>>]
    /\ domain' = domain \cup {tx.write}
    /\ tx' = NoTx
    /\ UNCHANGED <<locks, now, pc, cur, lk_last, bk_attempts, bk_delay, bk_prev, fault,
                   avail_default, tx_n, tx_rolled, auxVars>>

\* the producer's rollback discards both
TxRollback ==
    /\ tx.open
    /\ tx_rolled' = tx_rolled \cup {tx.write}
    /\ tx' = NoTx
    /\ UNCHANGED <<events, locks, now, pc, cur, failures, lk_last, bk_attempts, bk_delay,
                   bk_prev, runs, fault, avail_default, tx_n, domain, auxVars>>

\* an enqueue_event that commits the connection before it returns
EnqueueCommits_Yes == TRUE

\* enqueue_event "does NOT begin/commit its own transaction"
EnqueueCommits == FALSE

\* the producer writes domain row k and calls enqueue_event with payload k on
\* the same connection
TxBegin ==
    /\ ~tx.open
    /\ tx_n < MaxTxns
    /\ tx_n' = tx_n + 1
    /\ LET k == tx_n + 1
           e == enqueue_event(events, "AppointmentCreated", k, "NEW", 10, now, NULL, now)
       IN  IF EnqueueCommits
           THEN /\ events' = e.events
                /\ failures' = Append(failures, <<>>)
                /\ runs' = Append(runs, <<>>)
                /\ domain' = domain \cup {k}
                /\ tx' = [open |-> TRUE, write |-> k, events |-> <<>>]
           ELSE /\ tx' = [open |-> TRUE, write |-> k, events |-> <<e.events[e.id]>>]
                /\ UNCHANGED <<events, failures, runs, domain>>
    /\ UNCHANGED <<locks, now, pc, cur, lk_last, bk_attempts, bk_delay, bk_prev, fault,
                   avail_default, tx_rolled, auxVars>>

OutboxNext ==
    \/ TxBegin
    \/ TxCommit
    \/ TxRollback
    \/ Tick
    \/ \E w \in Workers : PeriodicStep(w)
    \/ \E w \in Workers : LockSelect(w)
    \/ \E w \in Workers : LockUpdate(w)
    \/ \E w \in Workers : ProcessDone(w)
    \/ \E w \in Workers, err \in ErrorTexts : ProcessFailed(w, err)

OutboxSpec == Init /\ [][OutboxNext]_vars

-----------------------------------------------------------------------------
(* The queue with producers that pass any run_at and max_attempts *)

MaxWideEvents == 2

\* run_at: a second already past, or the present one
WideRunAts(t) == {r \in {t - 10, t} : r >= 0}

\* max_attempts: None, or a negative number
WideMaxAttempts == {NULL, 0 - 2}

WideEnqueue ==
    \E r \in WideRunAts(now), m \in WideMaxAttempts :
        Produce(MaxWideEvents, "AppointmentCreated", 0, "NEW", 10, r, m)

WideNext ==
    \/ WideEnqueue
    \/ Tick
    \/ \E w \in Workers : PeriodicStep(w)
    \/ \E w \in Workers : LockSelect(w)
    \/ \E w \in Workers : LockUpdate(w)
    \/ \E w \in Workers : ProcessDone(w)
    \/ \E w \in Workers, err \in ErrorTexts : ProcessFailed(w, err)

WideSpec == Init /\ [][WideNext]_vars

-----------------------------------------------------------------------------
(* The queue with a caller that repeats mark_done *)

MaxDoneEvents == 1

DoneEnqueue == Produce(MaxDoneEvents, "AppointmentCreated", 0, "NEW", 10, now, NULL)

\* mark_done(conn, event_id) called again for an event that is DONE, committed
MarkDoneAgain(i) ==
    /\ i \in Ids(events)
    /\ events[i].status = "DONE"
    /\ events' = mark_done(events, i, now)
    /\ UNCHANGED <<locks, now, pc, cur, failures, lk_last, bk_attempts, bk_delay, bk_prev,
                   runs, fault, envVars>>

DoneNext ==
    \/ DoneEnqueue
    \/ Tick
    \/ \E i \in 1..MaxDoneEvents : MarkDoneAgain(i)
    \/ \E w \in Workers : PeriodicStep(w)
    \/ \E w \in Workers : LockSelect(w)
    \/ \E w \in Workers : LockUpdate(w)
    \/ \E w \in Workers : ProcessDone(w)
    \/ \E w \in Workers, err \in ErrorTexts : ProcessFailed(w, err)

DoneSpec == Init /\ [][DoneNext]_vars

-----------------------------------------------------------------------------
(* The queue with store operations that raise *)

MaxFaultEvents == 1

FaultEnqueue ==
    \E m \in ProducerMaxAttempts :
        Produce(MaxFaultEvents, "AppointmentCreated", 0, "NEW", 10, now, m)

FaultNext ==
    \/ FaultEnqueue
    \/ Tick
    \/ \E w \in Workers : PeriodicStep(w)
    \/ \E w \in Workers : PeriodicStoreFault(w)
    \/ \E w \in Workers : LockSelect(w)
    \/ \E w \in Workers : LockUpdate(w)
    \/ \E w \in Workers : LockStoreFault(w)
    \/ \E w \in Workers : ProcessDone(w)
    \/ \E w \in Workers, err \in ErrorTexts : ProcessFailed(w, err)
    \/ \E w \in Workers, h \in ErrorTexts \cup {NULL}, se \in StoreErrorTexts,
          f1 \in TryFaults, f2 \in ExceptFaults : ProcessStoreFault(w, h, se, f1, f2)

FaultSpec == Init /\ [][FaultNext]_vars

-----------------------------------------------------------------------------
(* The queue with the handlers of an event called one at a time *)

MaxDispatchEvents == 1

\* an event type of each fan-out, and one that no branch of _dispatch matches
DispatchEventTypes == {"AppointmentCompleted", "AppointmentCreated", "PatientRegistered"}

DispatchEnqueue ==
    \E ty \in DispatchEventTypes :
        Produce(MaxDispatchEvents, ty, 0, "NEW", 10, now, NULL)

DispatchNext ==
    \/ DispatchEnqueue
    \/ Tick
    \/ \E w \in Workers : PeriodicStep(w)
    \/ \E w \in Workers : LockSelect(w)
    \/ \E w \in Workers : LockUpdate(w)
    \/ \E w \in Workers, h \in ErrorTexts \cup {NULL} : InvokeHandler(w, h)
    \/ \E w \in Workers : DispatchReturn(w)

DispatchSpec == Init /\ [][DispatchNext]_vars

-----------------------------------------------------------------------------
(* The queue on a database without the agent_runs table *)

MaxAbsentEvents == 2

AbsentInit == InitSchema(FALSE, FALSE)

AbsentEnqueue ==
    \E m \in ProducerMaxAttempts :
        Produce(MaxAbsentEvents, "AppointmentCreated", 0, "NEW", 10, now, m)

AbsentNext ==
    \/ AbsentEnqueue
    \/ Tick
    \/ \E w \in Workers : PeriodicStep(w)
    \/ \E w \in Workers : LockSelect(w)
    \/ \E w \in Workers : LockUpdate(w)
    \/ \E w \in Workers, se \in StoreErrorTexts, f1 \in TryFaults, f2 \in ExceptFaults :
          ProcessStoreFault(w, NULL, se, f1, f2)

AbsentSpec == AbsentInit /\ [][AbsentNext]_vars

-----------------------------------------------------------------------------
(* Two events and a store that can fail during step 3 of run_loop *)

MaxFinalizeEvents == 2

FinalizeEnqueue ==
    Produce(MaxFinalizeEvents, "AppointmentCreated", 0, "NEW", 10, now, NULL)

FinalizeNext ==
    \/ FinalizeEnqueue
    \/ Tick
    \/ \E w \in Workers : PeriodicStep(w)
    \/ \E w \in Workers : LockSelect(w)
    \/ \E w \in Workers : LockUpdate(w)
    \/ \E w \in Workers : ProcessDone(w)
    \/ \E w \in Workers, err \in ErrorTexts : ProcessFailed(w, err)
    \/ \E w \in Workers, h \in ErrorTexts \cup {NULL}, se \in StoreErrorTexts,
          f1 \in TryFaults, f2 \in ExceptFaults : ProcessStoreFault(w, h, se, f1, f2)

FinalizeSpec == Init /\ [][FinalizeNext]_vars

-----------------------------------------------------------------------------
(* The queue with the enqueue_event calls of a producer recorded *)

MaxEnqEvents == 2

\* a keyword argument that is left out, or passed with one of vals
Opt(name, vals) == {[x \in {} |-> 0]} \cup {name :> v : v \in vals}

\* the keyword arguments of a call at time t
EnqueueKws(t) ==
    {a @@ b @@ c @@ d : a \in Opt("status", {"PENDING"}), b \in Opt("priority", {5}),
                        c \in Opt("run_at", {t}), d \in Opt("max_attempts", {1})}

\* the value of keyword name in kw, or its default in the signature
Arg(kw, name, default) == IF name \in DOMAIN kw THEN kw[name] ELSE default

\* enqueue_event(conn, "AppointmentCreated", {}, **kw), committed by the producer
EnqueueCall(kw) ==
    /\ Len(events) < MaxEnqEvents
    /\ LET e == enqueue_event(events, "AppointmentCreated", 0,
                              Arg(kw, "status", "NEW"), Arg(kw, "priority", 50),
                              Arg(kw, "run_at", NULL), Arg(kw, "max_attempts", NULL), now)
       IN  /\ events' = e.events
           /\ failures' = IF e.raised THEN failures ELSE Append(failures, <<>>)
           /\ runs' = IF e.raised THEN runs ELSE Append(runs, <<>>)
           /\ enq_last' = [called |-> TRUE, kw |-> kw, at |-> now,
                           raised |-> e.raised, id |-> e.id]
    /\ UNCHANGED <<locks, now, pc, cur, lk_last, bk_attempts, bk_delay, bk_prev, fault,
                   avail_default, tx, tx_n, tx_rolled, domain, runs_table, hk, calls,
                   parsed, uncommitted, hwrites, ins>>

EnqNext ==
    \/ \E kw \in EnqueueKws(now) : EnqueueCall(kw)
    \/ Tick
    \/ \E w \in Workers : PeriodicStep(w)
    \/ \E w \in Workers : LockSelect(w)
    \/ \E w \in Workers : LockUpdate(w)
    \/ \E w \in Workers : ProcessDone(w)
    \/ \E w \in Workers, err \in ErrorTexts : ProcessFailed(w, err)

EnqSpec == Init /\ [][EnqNext]_vars

-----------------------------------------------------------------------------
(* One event with three attempts whose handlers raise different exceptions *)

MaxErrEvents == 1
ErrMaxAttempts == 3

\* the texts of two different handler exceptions
RetryErrorTexts == ErrorTexts \cup {NumErrorTexts + 2}

ErrEnqueue ==
    Produce(MaxErrEvents, "AppointmentCreated", 0, "NEW", 10, now, ErrMaxAttempts)

ErrNext ==
    \/ ErrEnqueue
    \/ Tick
    \/ \E w \in Workers : PeriodicStep(w)
    \/ \E w \in Workers : LockSelect(w)
    \/ \E w \in Workers : LockUpdate(w)
    \/ \E w \in Workers : ProcessDone(w)
    \/ \E w \in Workers, err \in RetryErrorTexts : ProcessFailed(w, err)
    \/ \E w \in Workers, h \in RetryErrorTexts \cup {NULL}, se \in StoreErrorTexts,
          f1 \in TryFaults, f2 \in ExceptFaults : ProcessStoreFault(w, h, se, f1, f2)

ErrSpec == Init /\ [][ErrNext]_vars

-----------------------------------------------------------------------------
(* Workers that keep running, with no crash and no store failure *)

MaxProgressEvents == 2
MaxProgressTime == 50

ProgressEnqueue ==
    \E m \in ProducerMaxAttempts, r \in {now, now + 10} :
        Produce(MaxProgressEvents, "AppointmentCreated", 0, "NEW", 10, r, m)

\* the rows that wait for their available_at
Waiting == {i \in Ids(events) : StatusClaimable(events[i]) /\ events[i].available_at > now}

\* the clock advances while a row waits for its available_at
ProgressTick == Waiting # {} /\ Advance(TickSteps, MaxProgressTime)

ProgressNext ==
    \/ ProgressEnqueue
    \/ ProgressTick
    \/ \E w \in Workers : PeriodicStep(w)
    \/ \E w \in Workers : LockSelect(w)
    \/ \E w \in Workers : LockUpdate(w)
    \/ \E w \in Workers : ProcessDone(w)
    \/ \E w \in Workers, err \in ErrorTexts : ProcessFailed(w, err)

\* every worker keeps running its loop, and time advances
ProgressSpec ==
    /\ Init
    /\ [][ProgressNext]_vars
    /\ WF_vars(ProgressTick)
    /\ \A w \in Workers : WF_vars(WorkerStep(w))

-----------------------------------------------------------------------------
(* Rows whose payload_json was not written by enqueue_event *)

MaxParseEvents == 1

\* the document {}
EmptyDoc == 0

\* a value of the column payload_json LONGTEXT NULL
SqlNull == [null |-> TRUE]
SqlText(text) == [null |-> FALSE, text |-> text]

\* Python truth value of a column value: None and "" are false
Falsy(v) == v.null \/ v.text = ""

\* the texts json.loads accepts, with the documents they denote
JsonDocs == ("{}" :> EmptyDoc) @@ ("{\"appointment_id\": 7}" :> 7)

\* json.loads: the document, or an exception for a text that is not JSON
json_loads(text) ==
    IF text \in DOMAIN JsonDocs THEN [raised |-> FALSE, value |-> JsonDocs[text]]
    ELSE [raised |-> TRUE]

\* a parse with no except clause
_parse_payload_NoExcept(row) ==
    json_loads(IF Falsy(row.payload) THEN "{}" ELSE row.payload.text)

\* _parse_payload: json.loads(row.get("payload_json") or "{}"), {} on an exception
_parse_payload(row) ==
    LET r == json_loads(IF Falsy(row.payload) THEN "{}" ELSE row.payload.text)
    IN  [raised |-> FALSE, value |-> IF r.raised THEN EmptyDoc ELSE r.value]

\* the payload_json values of the rows inserted
PayloadJsons ==
    {SqlNull} \cup {SqlText(text) : text \in {"", "{oops", "{}", "{\"appointment_id\": 7}"}}

\* a producer inserts a row with payload_json pj
ParseInsert(pj) ==
    /\ Len(events) < MaxParseEvents
    /\ events' = Append(events, NewRow("AppointmentCreated", pj, "NEW", 10, now, NULL, now))
    /\ failures' = Append(failures, <<>>)
    /\ runs' = Append(runs, <<>>)
    /\ UNCHANGED <<locks, now, pc, cur, lk_last, bk_attempts, bk_delay, bk_prev,
                   fault, envVars>>

\* run_loop from the claimed row on: _parse_payload, then step 3 with the
\* parsed payload passed to _dispatch, whose handlers return (h = NULL) or
\* raise h.  An exception of _parse_payload would reach the outer except:
\* rollback, and the loop starts over.
ParseProcess(w, h) ==
    /\ pc[w] = "process"
    /\ runs_table
    /\ LET p == _parse_payload(events[cur[w]])
           r == process_event(events, runs, cur[w], h, NULL, "none", "none", now)
       IN  IF p.raised
           THEN UNCHANGED <<events, runs, failures, parsed>>
           ELSE /\ parsed' = (cur[w] :> Append(CallsIn(parsed, cur[w]), p.value)) @@ parsed
                /\ events' = r.events
                /\ runs' = r.runs
                /\ failures' = IF r.error = NULL THEN failures
                               ELSE [failures EXCEPT ![cur[w]] = Append(@, r.error)]
    /\ pc' = [pc EXCEPT ![w] = "periodics"]
    /\ cur' = [cur EXCEPT ![w] = NULL]
    /\ fault' = NoFault
    /\ UNCHANGED <<locks, now, lk_last, bk_attempts, bk_delay, bk_prev,
                   avail_default, tx, tx_n, tx_rolled, domain, runs_table, enq_last,
                   hk, calls, uncommitted, hwrites, ins>>

ParseNext ==
    \/ \E pj \in PayloadJsons : ParseInsert(pj)
    \/ Tick
    \/ \E w \in Workers : PeriodicStep(w)
    \/ \E w \in Workers : LockSelect(w)
    \/ \E w \in Workers : LockUpdate(w)
    \/ \E w \in Workers, h \in ErrorTexts \cup {NULL} : ParseProcess(w, h)

ParseSpec == Init /\ [][ParseNext]_vars

-----------------------------------------------------------------------------
(* The tick events of the periodic triggers, dispatched one handler at a time *)

RouteInit == InitSchema(TRUE, TRUE)

RouteNext ==
    \/ Tick
    \/ \E w \in Workers : PeriodicStep(w)
    \/ \E w \in Workers : LockSelect(w)
    \/ \E w \in Workers : LockUpdate(w)
    \/ \E w \in Workers, h \in ErrorTexts \cup {NULL} : InvokeHandler(w, h)
    \/ \E w \in Workers : DispatchReturn(w)

RouteSpec == RouteInit /\ [][RouteNext]_vars

-----------------------------------------------------------------------------
(* Step 1 of run_loop on either schema, with store failures *)

\* available_at NOT NULL as ensure_schema declares it, or taking its default
PeriodicInit == \E d \in BOOLEAN : InitSchema(d, TRUE)

PeriodicNext ==
    \/ TickLong
    \/ \E w \in Workers : PeriodicStep(w)
    \/ \E w \in Workers : PeriodicStoreFault(w)
    \/ \E w \in Workers : LockSelect(w)
    \/ \E w \in Workers : LockUpdate(w)
    \/ \E w \in Workers : ProcessDone(w)
    \/ \E w \in Workers, err \in ErrorTexts : ProcessFailed(w, err)

PeriodicSpec == PeriodicInit /\ [][PeriodicNext]_vars

-----------------------------------------------------------------------------
(* The INSERT statement enqueue_event builds, by the columns the table has *)

\* Python list.insert(i, x) on q: before position i counted from 0, from the
\* end when i is negative, and at the end when i is past it
ListInsert(q, i, x) ==
    LET n == Len(q)
        k == IF i < 0 THEN Max(0, n + i) ELSE Min(i, n)
    IN  SubSeq(q, 1, k) \o <<x>> \o SubSeq(q, k + 1, n)

\* cols, vals and params with column col inserted at position i of cols and
\* vals, and the argument arg at position j of params (appended when j is NULL)
WithColumn(st, i, j, col, arg) ==
    [cols   |-> ListInsert(st.cols, i, col),
     vals   |-> ListInsert(st.vals, i, "%s"),
     params |-> IF j = NULL THEN Append(st.params, arg) ELSE ListInsert(st.params, j, arg)]

\* st when cond is false
When(cond, st, i, j, col, arg) == IF cond THEN WithColumn(st, i, j, col, arg) ELSE st

\* enqueue_event: cols, vals and params for a table with the optional columns
\* has, called with the optional arguments given.  A parameter is named by
\* the argument it carries.
BuildInsert(has, given) ==
    LET s0 == [cols   |-> <<"event_type", "payload_json", "status", "attempts",
                            "created_at", "updated_at">>,
               vals   |-> <<"%s", "%s", "%s", "0", "NOW()", "NOW()">>,
               params |-> <<"event_type", "payload_json", "status">>]
        s1 == When(has.priority, s0, 3, 3, "priority", "priority")
        s2 == When(has.max_attempts, s1, 4, 4, "max_attempts", "max_attempts")
        s3 == When(has.available_at, s2, 4, 4, "available_at", "run_at")
        s4 == When(has.created_by_user_id /\ given.created_by_user_id, s3, 0 - 2, NULL,
                   "created_by_user_id", "created_by_user_id")
    IN  When(has.correlation_id /\ given.correlation_id, s4, 0 - 2, NULL,
             "correlation_id", "correlation_id")

\* the combinations of optional columns a table can have
ColumnSets ==
    [priority : BOOLEAN, max_attempts : BOOLEAN, available_at : BOOLEAN,
     created_by_user_id : BOOLEAN, correlation_id : BOOLEAN]

\* whether created_by_user_id and correlation_id are passed
GivenSets == [created_by_user_id : BOOLEAN, correlation_id : BOOLEAN]

\* the positions of vals up to k that hold a placeholder
Placeholders(vals, k) == {n \in 1..k : vals[n] = "%s"}

\* what cursor.execute binds to the k-th column of the INSERT st: the
\* parameter of its placeholder, or the literal
Bound(st, k) ==
    IF st.vals[k] = "%s"
    THEN LET n == Cardinality(Placeholders(st.vals, k))
         IN  IF n <= Len(st.params) THEN st.params[n] ELSE "(no parameter)"
    ELSE st.vals[k]

\* enqueue_event builds its INSERT on a table with the optional columns has
InsertBuild(has, given) ==
    /\ ins' = [built |-> TRUE, has |-> has, given |-> given] @@ BuildInsert(has, given)
    /\ UNCHANGED <<events, locks, now, pc, cur, failures, lk_last, bk_attempts, bk_delay,
                   bk_prev, runs, fault, avail_default, tx, tx_n, tx_rolled, domain,
                   runs_table, enq_last, hk, calls, parsed, uncommitted, hwrites>>

InsertNext == \E has \in ColumnSets, given \in GivenSets : InsertBuild(has, given)

InsertSpec == Init /\ [][InsertNext]_vars

-----------------------------------------------------------------------------
(* Properties *)

\* the workers whose lock_next_event returned row i and who have not finalized it
Holders(i) == {w \in Workers : cur[w] = i /\ pc[w] \in {"process", "crashed"}}

LeaseUnexpired(row, t) ==
    row.locked_at # NULL /\ row.locked_at >= t - LOCK_TTL_SECONDS

\* backoff(n) = clamp(2^min(n,8) * 5, lower = 10, upper = 600)
SpecBackoff(n) ==
    LET raw == (2 ^ (IF n < 8 THEN n ELSE 8)) * 5
    IN  IF raw < 10 THEN 10 ELSE IF raw > 600 THEN 600 ELSE raw

\* C1: mutual exclusion.  While the lease of an event is unexpired, at most
\* one worker holds a successful claim of it, however the workers race.
C1_MutualExclusion ==
    \A i \in Ids(events) :
        LeaseUnexpired(events[i], now) => Cardinality(Holders(i)) <= 1

\* two workers have raced in the same second and both hold a claim
C1_Witness ==
    \E w1, w2 \in Workers :
        /\ w1 # w2
        /\ pc[w1] = "process" /\ pc[w2] = "process"
        /\ events[cur[w1]].locked_at = events[cur[w2]].locked_at
        /\ LeaseUnexpired(events[cur[w1]], now)

\* C2: lease reclamation.  An event left PROCESSING by a worker that died,
\* whose lease is older than the TTL, is a candidate of the next claim.
C2_StaleLeaseReclaimable ==
    \A i \in Ids(events) :
        ( /\ events[i].status = "PROCESSING"
          /\ events[i].locked_at < now - LOCK_TTL_SECONDS
          /\ \E w \in Workers : pc[w] = "crashed" /\ cur[w] = i )
        => i \in Candidates(events, now)

\* C3: crash recovery.  An event whose claiming worker died before
\* finalizing it eventually reaches DONE or FAILED, as long as another
\* worker keeps running and time advances: here from a moment on at which
\* the lease TTL has already elapsed.
C3_CrashRecovery ==
    \A i \in 1..MaxFairEvents :
        ( /\ i \in Ids(events)
          /\ events[i].status = "PROCESSING"
          /\ events[i].locked_at < now - LOCK_TTL_SECONDS
          /\ \E w \in Workers : pc[w] = "crashed" /\ cur[w] = i )
        ~> ( i \in Ids(events) /\ events[i].status \in {"DONE", "FAILED"} )

\* C4: terminal exhaustion.  An event with max_attempts = N >= 1 whose every
\* attempt failed is back in NEW after failures 1..N-1, is FAILED exactly from
\* the Nth failure on (attempts = N), and no worker holds a FAILED event.
C4_TerminalExhaustion ==
    \A i \in Ids(events) :
        LET r == events[i]
            n == Len(failures[i])
        IN  (r.max_attempts >= 1 /\ r.status # "DONE") =>
                /\ r.status = "FAILED" => (n = r.max_attempts /\ r.attempts = r.max_attempts)
                /\ n >= r.max_attempts => r.status = "FAILED"
                /\ (1 <= n /\ n < r.max_attempts /\ r.status # "PROCESSING")
                       => (r.status = "NEW" /\ r.attempts = n)
                /\ r.status = "FAILED" =>
                       /\ i \notin Candidates(events, now)
                       /\ \A w \in Workers : ~(cur[w] = i /\ pc[w] \in {"claim", "process"})

\* an event with max_attempts = 2 has failed twice and is FAILED
C4_Witness ==
    \E i \in Ids(events) :
        /\ events[i].status = "FAILED"
        /\ events[i].max_attempts = 2
        /\ Len(failures[i]) = 2

\* C5: DONE and FAILED are terminal.  No step of any worker changes the
\* status or the attempts of an event that is DONE or FAILED.
C5_TerminalStays ==
    [][ \A i \in Ids(events) :
            events[i].status \in {"DONE", "FAILED"} =>
                /\ events'[i].status = events[i].status
                /\ events'[i].attempts = events[i].attempts ]_vars

\* a DONE and a FAILED event are in the table while a worker polls
C5_Witness ==
    \E i, j \in Ids(events) :
        /\ events[i].status = "DONE"
        /\ events[j].status = "FAILED"
        /\ events[i].available_at <= now /\ events[j].available_at <= now
        /\ \E w \in Workers : pc[w] = "lock"

\* C6: priority ordering.  The row a claim selects is eligible, and no
\* eligible row has a smaller priority, or the same priority and a smaller id.
C6_PriorityOrder ==
    [][ \A w \in Workers :
            (pc[w] = "lock" /\ pc'[w] = "claim") =>
                /\ IsCandidate(events[cur'[w]], now)
                /\ \A j \in Ids(events) :
                       IsCandidate(events[j], now) =>
                           \/ events[cur'[w]].priority < events[j].priority
                           \/ /\ events[cur'[w]].priority = events[j].priority
                              /\ cur'[w] <= j ]_vars

\* A(10), B(10), C(5) were enqueued in this order and are all eligible; the
\* claim has selected C
C6_Witness ==
    /\ Len(events) = 3
    /\ events[1].priority = 10 /\ events[2].priority = 10 /\ events[3].priority = 5
    /\ \A i \in 1..3 : events[i].status = "NEW" /\ events[i].available_at <= now
    /\ \E w \in Workers : pc[w] = "claim" /\ cur[w] = 3

\* C7: backoff bounds and monotonicity.  The delay computed for n attempts
\* is clamp(2^min(n,8) * 5, 10, 600), lies in [10, 600], and is not smaller
\* than the delay computed for the failure before.
C7_Backoff ==
    bk_delay # NULL =>
        /\ bk_delay = SpecBackoff(bk_attempts)
        /\ 10 <= bk_delay /\ bk_delay <= 600
        /\ bk_prev # NULL => bk_delay >= bk_prev

\* the seventh failure: the delay reaches the cap after 320 seconds
C7_Witness == bk_attempts = 7 /\ bk_prev = 320 /\ bk_delay = 600

\* C8: mark_failed on a PROCESSING event.  With attempts >= max_attempts the
\* row becomes FAILED, else NEW with available_at = now + backoff(attempts);
\* either way last_error is the error text and the lease is cleared, and
\* nothing else of the row changes.
C8_MarkFailed ==
    [][ \A i \in Ids(events) :
            (Len(failures'[i]) = Len(failures[i]) + 1 /\ events[i].status = "PROCESSING") =>
                LET r == events[i]
                    err == failures'[i][Len(failures'[i])]
                IN  events'[i] =
                        IF r.attempts >= r.max_attempts
                        THEN [r EXCEPT !.status = "FAILED", !.last_error = err,
                                       !.locked_by = NULL, !.locked_at = NULL]
                        ELSE [r EXCEPT !.status = "NEW", !.last_error = err,
                                       !.locked_by = NULL, !.locked_at = NULL,
                                       !.available_at = now + SpecBackoff(r.attempts)] ]_vars

\* one event was sent back to NEW with a delay, another one is FAILED
C8_Witness ==
    \E i, j \in Ids(events) :
        /\ events[i].status = "NEW" /\ events[i].last_error \in ErrorTexts
        /\ events[i].available_at > now
        /\ events[j].status = "FAILED" /\ events[j].last_error \in ErrorTexts

\* C9: delayed retry is respected.  A claim never selects a row whose
\* available_at is later than now: every claimed row was claimed at or after
\* its available_at.
C9_NotBeforeAvailable ==
    /\ \A w \in Workers : pc[w] = "claim" => events[cur[w]].available_at <= now
    /\ \A i \in Ids(events) :
           events[i].status = "PROCESSING" => events[i].available_at <= events[i].locked_at

\* a retry was claimed in the very second its backoff ended
C9_Witness ==
    \E i \in Ids(events) :
        /\ events[i].status = "PROCESSING"
        /\ failures[i] # <<>>
        /\ events[i].locked_at = events[i].available_at

\* C10: idempotency lock.  claim(key, ttl) returns true exactly when the key
\* has no row or an expired one, and then leaves the row of the key with the
\* caller as holder and expires_at = now + ttl; otherwise it returns false
\* and changes nothing.
C10_ClaimDedup ==
    [][ lk_last' # lk_last =>
            LET c == lk_last'
                rows == {r \in locks : r.lock_key = c.key}
            IN  /\ c.at = now
                /\ c.ok <=> (\A r \in rows : r.expires_at <= now)
                /\ c.ok => locks' = (locks \ rows) \cup
                               {[lock_key |-> c.key, locked_by |-> c.by,
                                 expires_at |-> now + c.ttl]}
                /\ ~c.ok => locks' = locks
                /\ Cardinality({r \in locks' : r.lock_key = c.key}) <= 1 ]_vars

\* two workers claimed the same key in the same second: one holds the lock,
\* the other was refused
C10_Witness ==
    \E r \in locks :
        /\ lk_last.key = r.lock_key
        /\ lk_last.ok = FALSE
        /\ lk_last.at = now
        /\ lk_last.by # r.locked_by
        /\ \E ttl \in LockTtls : r.expires_at = now + ttl

\* the periodic triggers that enqueue events of this type
TriggersOf(event_type) ==
    {k \in 1..Len(Periodics) : Periodics[k].event_type = event_type}

\* C11: any two committed tick events of the same tick type were enqueued at
\* least that trigger's TTL apart, whichever workers enqueued them.
C11_TickDedup ==
    \A i, j \in Ids(events) :
        (i < j /\ events[i].event_type = events[j].event_type)
        => \A k \in TriggersOf(events[i].event_type) :
               events[j].created_at - events[i].created_at >= Periodics[k].ttl

\* the minute trigger has fired twice
C11_Witness ==
    \E i, j \in Ids(events) :
        /\ i < j
        /\ events[i].event_type = "AppointmentMonitorTick"
        /\ events[j].event_type = "AppointmentMonitorTick"
        /\ events[j].created_at > events[i].created_at

\* the committed event rows that carry domain write k
RowsOf(k) == {i \in Ids(events) : events[i].payload = k}

\* C12: enqueue_event commits nothing.  The event row of a producer
\* transaction is visible exactly when its domain write is: not while the
\* transaction is open, never after a rollback (so no worker is ever handed
\* it), and together with the domain write after the commit.
C12_OutboxAtomicity ==
    /\ \A i \in Ids(events) : events[i].payload \in domain
    /\ \A k \in domain : RowsOf(k) # {}
    /\ \A k \in tx_rolled : k \notin domain /\ RowsOf(k) = {}
    /\ tx.open => (tx.write \notin domain /\ RowsOf(tx.write) = {})
    /\ \A w \in Workers : cur[w] # NULL => events[cur[w]].payload \notin tx_rolled

\* one transaction was rolled back, another committed and its event was claimed
C12_Witness ==
    /\ tx_rolled # {}
    /\ \E w \in Workers : pc[w] = "process" /\ events[cur[w]].payload \in domain

\* mark_failed was committed for event i in this step
FailedNow(i) == Len(failures'[i]) > Len(failures[i])

\* C13: attempts never decreases and never exceeds max_attempts; a handler
\* failure at attempts = max_attempts makes the event FAILED, and FAILED stays.
C13_AttemptsBounded ==
    /\ [](\A i \in Ids(events) : events[i].attempts <= events[i].max_attempts)
    /\ [][\A i \in Ids(events) :
             /\ events'[i].attempts >= events[i].attempts
             /\ (FailedNow(i) /\ events[i].attempts = events[i].max_attempts)
                    => events'[i].status = "FAILED"
             /\ events[i].status = "FAILED" => events'[i].status = "FAILED"]_vars

\* C14: an event that is not PROCESSING has no lease owner and no lease start.
C14_LeaseFields ==
    \A i \in Ids(events) :
        events[i].status # "PROCESSING"
        => (events[i].locked_by = NULL /\ events[i].locked_at = NULL)

\* events that were leased and released, one by mark_done and one by mark_failed
C14_Witness ==
    /\ \E i \in Ids(events) : events[i].status = "DONE" /\ events[i].attempts > 0
    /\ \E i \in Ids(events) : events[i].status \in {"NEW", "FAILED"} /\ events[i].attempts > 0

\* C15: available_at is never before the event's creation time, whatever
\* run_at the producer passed, and a retry never moves available_at back.
C15_AvailableAt ==
    /\ [](\A i \in Ids(events) : events[i].available_at >= events[i].created_at)
    /\ [][\A i \in Ids(events) :
             FailedNow(i) => events'[i].available_at >= events[i].available_at]_vars

\* C16: mark_done on an event that mark_done already made DONE changes nothing
\* of the row, at whatever time it is called.
C16_MarkDoneIdempotent ==
    [][\A i \in Ids(events) : events[i].status = "DONE" => events'[i] = events[i]]_vars

\* the status changes of the event state machine, from row a to row b
Transition(a, b) ==
    \/ a.status \in {"NEW", "PENDING"} /\ b.status = "PROCESSING"
    \/ a.status = "PROCESSING" /\ b.status = "DONE"
    \/ a.status = "PROCESSING" /\ b.status = "NEW" /\ a.attempts < a.max_attempts
    \/ a.status = "PROCESSING" /\ b.status = "FAILED" /\ a.attempts >= a.max_attempts

\* C17: an event starts NEW or PENDING, and every committed change of its
\* status is a claim, a success, a retry or an exhaustion.
C17_StateMachine ==
    [][/\ \A i \in Ids(events') \ Ids(events) : events'[i].status \in {"NEW", "PENDING"}
       /\ \A i \in Ids(events) :
              events'[i].status # events[i].status => Transition(events[i], events'[i])]_vars

\* one event went PENDING -> PROCESSING -> NEW -> PROCESSING -> FAILED, another is DONE
C17_Witness ==
    /\ \E i \in Ids(events) : events[i].status = "FAILED" /\ events[i].attempts = 2
    /\ \E i \in Ids(events) : events[i].status = "DONE"

Last(q) == q[Len(q)]

\* worker w finishes an attempt in this step
AttemptEnds(w) == pc[w] = "process" /\ pc'[w] # "process"

\* a handler raised in the attempt that ends in this step
HandlerRaised(w) ==
    /\ AttemptEnds(w)
    /\ \/ fault'.at = "_dispatch"
       \/ (FailedNow(cur[w]) /\ Last(failures'[cur[w]]) \in ErrorTexts)

\* C18: whenever a handler raised in an attempt on e, the attempt leaves the
\* handler's error text in e.last_error and in a FAILED run row of e, and e is
\* no longer PROCESSING.
C18_ErrorRecorded ==
    [][\A w \in Workers :
          HandlerRaised(w)
          => \E h \in ErrorTexts :
                 /\ events'[cur[w]].last_error = h
                 /\ Len(runs'[cur[w]]) > Len(runs[cur[w]])
                 /\ Last(runs'[cur[w]]) = RunRow("FAILED", h)
                 /\ events'[cur[w]].status # "PROCESSING"]_vars

\* C19: mark_failed is applied to an event only with the error of a handler
\* that raised, also in attempts in which a run-log or finalize write raises.
C19_RetryOnlyOnHandlerFailure ==
    [][\A i \in Ids(events) : FailedNow(i) => Last(failures'[i]) \in ErrorTexts]_vars

\* C20: a worker step in which a store operation raised commits nothing, and
\* the worker goes on with its loop.
C20_StoreFailureRollsBack ==
    [][(fault' # NoFault /\ pc' # pc)
       => /\ events' = events
          /\ locks' = locks
          /\ runs' = runs
          /\ \A w \in Workers : pc'[w] # pc[w] => pc'[w] \in {"periodics", "lock"}]_vars

\* event i has a type that no routing rule matches
Unrouted(i) == events[i].event_type = "PatientRegistered"

\* C21: an event of an unknown type gets no handler call and no error; its
\* first attempt ends DONE, and it is never retried.
C21_UnknownIgnored ==
    \A i \in Ids(events) :
        Unrouted(i)
        => /\ events[i].attempts <= 1
           /\ events[i].last_error = NULL
           /\ failures[i] = <<>>
           /\ \A a \in 1..Len(CallsIn(calls, i)) : CallsIn(calls, i)[a] = <<>>
           /\ \A r \in 1..Len(runs[i]) : runs[i][r].status # "FAILED"
           /\ events[i].attempts = 0 => events[i].status = "NEW"
           /\ events[i].attempts = 1 => events[i].status \in {"PROCESSING", "DONE"}

\* an event of an unknown type was claimed once and is DONE
C21_Witness ==
    \E i \in Ids(events) :
        /\ Unrouted(i)
        /\ events[i].status = "DONE"
        /\ events[i].attempts = 1
        /\ CallsIn(calls, i) = << <<>> >>

\* the fan-out of the two appointment events, in the order stated
FanOut(event_type) ==
    IF event_type = "AppointmentCompleted" THEN <<"APPT", "INV", "REV", "CASE">>
    ELSE IF event_type = "AppointmentCreated" THEN <<"APPT", "REV">>
    ELSE <<>>

IsPrefix(p, q) == Len(p) <= Len(q) /\ p = SubSeq(q, 1, Len(p))

\* some worker is part-way through the fan-out of event i, after n calls
Dispatching(i, n) ==
    \E w \in Workers : pc[w] = "process" /\ cur[w] = i /\ hk[w] = n

\* C22: in every attempt the handlers are called in the fan-out order from the
\* first one on; when the k-th raises, mark_failed is applied in the same step
\* and the attempt has called exactly the first k; a finished attempt gets no
\* further call, and the retry starts a new attempt.
C22_FanOut ==
    /\ [](\A i \in Ids(events) : \A a \in 1..Len(CallsIn(calls, i)) :
              IsPrefix(CallsIn(calls, i)[a], FanOut(events[i].event_type)))
    /\ [][\A i \in Ids(events) :
             LET old == CallsIn(calls, i)
                 new == CallsIn(calls', i)
             IN  /\ Len(new) >= Len(old)
                 /\ \A a \in 1..Len(old) :
                        \/ new[a] = old[a]
                        \/ /\ a = Len(old)
                           /\ Len(old[a]) > 0
                           /\ Dispatching(i, Len(old[a]))
                           /\ new[a] = Append(old[a], FanOut(events[i].event_type)[Len(old[a]) + 1])
                 /\ Len(new) > Len(old) => (Len(new) = Len(old) + 1 /\ Dispatching(i, 0))
                 /\ FailedNow(i)
                        => \E w \in Workers :
                               /\ pc[w] = "process" /\ cur[w] = i /\ pc'[w] # "process"
                               /\ new[Len(new)] = SubSeq(FanOut(events[i].event_type), 1, hk[w] + 1)
                               /\ events'[i].status \in {"NEW", "FAILED"}]_vars

\* an AppointmentCompleted event whose second handler raised in the first
\* attempt and whose retry called all four handlers
C22_Witness ==
    \E i \in Ids(events) :
        /\ events[i].event_type = "AppointmentCompleted"
        /\ events[i].status = "DONE"
        /\ CallsIn(calls, i) = << <<"APPT", "INV">>, <<"APPT", "INV", "REV", "CASE">> >>

\* C23: without the run-log table an attempt still ends with the event
\* finalized: DONE when the handlers returned, NEW or FAILED when one raised.
C23_RunLogAbsent ==
    [][\A w \in Workers :
          (~runs_table /\ AttemptEnds(w))
          => events'[cur[w]].status \in {"DONE", "NEW", "FAILED"}]_vars

\* C24: no step removes an event row, and the type and payload of an existing
\* row (the row at a given id) never change.
C24_Retained ==
    [][/\ Len(events') >= Len(events)
       /\ \A i \in Ids(events) :
              /\ events'[i].event_type = events[i].event_type
              /\ events'[i].payload = events[i].payload
              /\ events'[i].created_at = events[i].created_at]_vars

\* two events with different payloads went through claim and finalize
C24_Witness ==
    \E i, j \in Ids(events) :
        /\ events[i].payload # events[j].payload
        /\ events[i].status = "DONE"
        /\ events[j].status = "FAILED"

\* C25: while the handlers of an event run, its attempts (counting the
\* current claim) do not exceed its max_attempts, whatever max_attempts the
\* producer passed.
C25_HandlerWithinAttempts ==
    \A w \in Workers :
        pc[w] = "process" => events[cur[w]].attempts <= events[cur[w]].max_attempts

\* C26: a claim changes the claimed row's status, attempts, locked_by and
\* locked_at and nothing else in the table; a lock_next_event that finds no
\* row, and the SELECT itself, change nothing.
C26_ClaimFrame ==
    [][\A w \in Workers :
          /\ (pc[w] = "claim" /\ pc'[w] = "process")
             => events' = [events EXCEPT ![cur[w]] =
                              [@ EXCEPT !.status = "PROCESSING",
                                        !.attempts = @ + 1,
                                        !.locked_by = w,
                                        !.locked_at = now]]
          /\ (pc[w] = "lock" /\ pc'[w] # "lock") => events' = events]_vars

\* a second claim of an event whose available_at is in the past, next to
\* another event
C26_Witness ==
    \E w \in Workers :
        /\ pc[w] = "process"
        /\ Len(events) = 2
        /\ events[cur[w]].attempts = 2
        /\ events[cur[w]].available_at < events[cur[w]].locked_at

\* C27: every enqueue_event call adds one row with attempts 0, the status,
\* priority and max_attempts passed (or their defaults) and no lease, returns
\* the new largest id, and changes no other row.
C27_EnqueueResult ==
    [][enq_last' # enq_last
       => LET kw == enq_last'.kw
              n == Len(events)
          IN  /\ ~enq_last'.raised
              /\ Len(events') = n + 1
              /\ enq_last'.id = n + 1
              /\ events'[n + 1].attempts = 0
              /\ events'[n + 1].status = Arg(kw, "status", "NEW")
              /\ events'[n + 1].priority = Arg(kw, "priority", 50)
              /\ events'[n + 1].max_attempts = Arg(kw, "max_attempts", MAX_EVENT_ATTEMPTS)
              /\ events'[n + 1].locked_by = NULL
              /\ events'[n + 1].locked_at = NULL
              /\ \A i \in 1..n : events'[i] = events[i]]_vars

\* C28: while worker w runs the handlers of event e, the committed row of e is
\* PROCESSING with locked_by = w, no lock_next_event selects it, and no
\* transaction holds its row lock.
C28_ClaimCommitted ==
    \A w \in Workers :
        pc[w] = "process"
        => /\ events[cur[w]].status = "PROCESSING"
           /\ events[cur[w]].locked_by = w
           /\ cur[w] \notin Candidates(events, now)
           /\ \A v \in Workers : ~RowLockedByOther(v, cur[w])

\* a worker still runs the handlers of an event claimed more than the lease
\* TTL ago, while the other worker polls
C28_Witness ==
    \E w, v \in Workers :
        /\ pc[w] = "process"
        /\ events[cur[w]].locked_at < now - LOCK_TTL_SECONDS
        /\ pc[v] = "lock"

\* C29: the run rows of an event only get appended, and they are pairs of a
\* STARTED row and a DONE or FAILED row.
C29_RunLogShape ==
    /\ [](\A i \in Ids(events) :
              /\ Len(runs[i]) % 2 = 0
              /\ \A r \in 1..Len(runs[i]) :
                     IF r % 2 = 1 THEN runs[i][r].status = "STARTED"
                     ELSE runs[i][r].status \in {"DONE", "FAILED"})
    /\ [][\A i \in Ids(events) : IsPrefix(runs[i], runs'[i])]_vars

\* the events being processed under the lease of worker w
LeasedBy(w) ==
    {i \in Ids(events) : events[i].status = "PROCESSING" /\ events[i].locked_by = w}

\* C30: a worker holds at most one event PROCESSING, and starts its next
\* lock_next_event only when the event it claimed before is finalized.
C30_OneAtATime ==
    /\ [](\A w \in Workers : Cardinality(LeasedBy(w)) <= 1)
    /\ [][\A w \in Workers :
             (pc[w] = "lock" /\ pc'[w] # "lock") => LeasedBy(w) = {}]_vars

\* C31: last_error is the error text of the most recent committed mark_failed
\* of the event (NULL when there was none), and a step that is not a
\* mark_failed of the event (a claim, a mark_done) leaves it as it was.
C31_LastErrorRetained ==
    /\ [](\A i \in Ids(events) :
              events[i].last_error =
                  IF failures[i] = <<>> THEN NULL ELSE Last(failures[i]))
    /\ [][\A i \in Ids(events) :
              ~FailedNow(i) => events'[i].last_error = events[i].last_error]_vars

\* an event that is DONE at its third attempt, after two failures with
\* different errors, carries the second error
C31_Witness ==
    \E i \in Ids(events) :
        /\ events[i].status = "DONE"
        /\ Len(failures[i]) = 2
        /\ failures[i][1] # failures[i][2]
        /\ events[i].last_error = failures[i][2]

Malformed(v) == v.null \/ v.text = "" \/ v.text \notin DOMAIN JsonDocs

\* C33: an attempt on a row whose payload_json is NULL, empty or not JSON
\* passes the empty document to _dispatch, and ends DONE unless a handler
\* raised, in which case mark_failed gets the handler's error.
C33_MalformedPayload ==
    [][\A w \in Workers :
          (pc[w] = "process" /\ pc'[w] # "process" /\ Malformed(events[cur[w]].payload))
          => /\ CallsIn(parsed', cur[w]) = Append(CallsIn(parsed, cur[w]), EmptyDoc)
             /\ \/ events'[cur[w]].status = "DONE"
                \/ FailedNow(cur[w]) /\ Last(failures'[cur[w]]) \in ErrorTexts]_vars

\* a row with a payload_json that is not JSON is DONE at its second attempt,
\* after a handler failure, each time with the empty document
C33_Witness ==
    \E i \in Ids(events) :
        /\ ~events[i].payload.null
        /\ events[i].payload.text = "{oops"
        /\ events[i].status = "DONE"
        /\ CallsIn(parsed, i) = <<EmptyDoc, EmptyDoc>>

\* the handler the claim names for each tick event type
TickHandler ==
    ("AppointmentMonitorTick" :> "APPT") @@ ("InventoryDailyTick" :> "INV")
        @@ ("RevenueDailyTick" :> "REV")

\* C34: every attempt on a tick event the worker loop enqueued calls exactly
\* one handler, the appointment, inventory or revenue one according to the
\* type; the tick events are inserted with priority 10 and status NEW.
C34_TicksRouted ==
    /\ [](\A i \in Ids(events) :
              /\ events[i].event_type \in DOMAIN TickHandler
              /\ events[i].priority = 10
              /\ \A a \in 1..Len(CallsIn(calls, i)) :
                     calls[i][a] = <<TickHandler[events[i].event_type]>>)
    /\ [][\A i \in Ids(events') :
              i \notin Ids(events) => events'[i].status = "NEW" /\ events'[i].attempts = 0]_vars

\* the three tick events have been dispatched and are DONE
C34_Witness ==
    /\ {events[i].event_type : i \in Ids(events)} = DOMAIN TickHandler
    /\ \A i \in Ids(events) : events[i].status = "DONE" /\ Len(CallsIn(calls, i)) >= 1

\* the event types of the triggers whose lock is among the rows rs
EventTypesOf(rs) ==
    {Periodics[k].event_type : k \in {n \in 1..Len(Periodics) :
                                        \E r \in rs : r.lock_key = Periodics[n].key}}

\* C35: step 1 is one transaction.  A step re-arms the locks of exactly the
\* triggers whose tick event it inserts; a step 1 in which a claim or an
\* enqueue_event raises (every enqueue_event does on a table whose
\* available_at takes no NULL) changes neither the locks nor the events; and
\* step 1 is always followed by lock_next_event.
C35_PeriodicAtomic ==
    [][/\ EventTypesOf(locks' \ locks)
           = {events'[i].event_type : i \in Ids(events') \ Ids(events)}
       /\ Cardinality(locks' \ locks) = Len(events') - Len(events)
       /\ \A w \in Workers :
              pc[w] = "periodics" /\ pc'[w] # "periodics"
              => /\ pc'[w] = "lock"
                 /\ (~avail_default \/ fault'.at = "_enqueue_periodics")
                    => (locks' = locks /\ events' = events)]_vars

\* a worker is past a step 1 whose first enqueue_event raised after its claim
\* had succeeded: no lock and no event is there
C35_Witness ==
    /\ ~avail_default
    /\ locks = {}
    /\ events = <<>>
    /\ \E w \in Workers : pc[w] = "lock"

\* C36: when a handler of a fan-out raises, the step that commits the failure
\* makes durable, together, the writes of the handlers that returned before
\* it in that attempt, the STARTED run row, the mark_failed update and the
\* FAILED run row.
C36_FailureCommitsPartial ==
    [][\A w \in Workers :
          (pc[w] = "process" /\ FailedNow(cur[w]))
          => LET i == cur[w]
                 err == Last(failures'[i])
             IN  /\ hwrites' = hwrites \cup
                        {HandlerWrite(i, events[i].attempts, FanOut(events[i].event_type)[n]) :
                            n \in 1..hk[w]}
                 /\ runs'[i] = runs[i] \o <<RunRow("STARTED", NULL), RunRow("FAILED", err)>>
                 /\ events'[i].last_error = err
                 /\ events'[i].status \in {"NEW", "FAILED"}
                 /\ events'[i].locked_by = NULL]_vars

\* the first attempt on an AppointmentCompleted event failed in its third
\* handler: the writes of the first two are committed and the event waits
\* for its retry
C36_Witness ==
    \E i \in Ids(events) :
        /\ events[i].event_type = "AppointmentCompleted"
        /\ events[i].status = "NEW"
        /\ events[i].attempts = 1
        /\ hwrites = {HandlerWrite(i, 1, "APPT"), HandlerWrite(i, 1, "INV")}

\* C37: in every committed state an event has a done_at exactly when its
\* status is DONE.
C37_DoneAtIffDone ==
    \A i \in Ids(events) : (events[i].done_at # NULL) <=> (events[i].status = "DONE")

\* the DONE rows among the run rows of event i
DoneRuns(i) == {r \in 1..Len(runs[i]) : runs[i][r].status = "DONE"}

\* C38: an event never has more than one DONE run row, and once it has one
\* no handler is called for it and no worker claims it.
C38_NoDoubleProcessing ==
    /\ [](\A i \in Ids(events) :
              /\ Cardinality(DoneRuns(i)) <= 1
              /\ DoneRuns(i) # {} => \A w \in Workers : cur[w] # i)
    /\ [][\A i \in Ids(events) :
              DoneRuns(i) # {} => CallsIn(calls', i) = CallsIn(calls, i)]_vars

\* an event is DONE at its second attempt while a worker is about to run
\* lock_next_event
C38_Witness ==
    \E i \in Ids(events) :
        /\ Cardinality(DoneRuns(i)) = 1
        /\ Len(runs[i]) = 4
        /\ Len(CallsIn(calls, i)) = 2
        /\ \E w \in Workers : pc[w] = "lock"

\* the argument (or literal) the claim gives each column of the INSERT
OwnValue ==
    ("event_type" :> "event_type") @@ ("payload_json" :> "payload_json")
        @@ ("status" :> "status") @@ ("attempts" :> "0")
        @@ ("created_at" :> "NOW()") @@ ("updated_at" :> "NOW()")
        @@ ("priority" :> "priority") @@ ("max_attempts" :> "max_attempts")
        @@ ("available_at" :> "run_at")
        @@ ("created_by_user_id" :> "created_by_user_id")
        @@ ("correlation_id" :> "correlation_id")

\* C39: whatever optional columns the table has, the INSERT has as many
\* placeholders as parameters, lists every optional column that is there
\* (created_by_user_id and correlation_id when passed), and binds every
\* column to its own argument, attempts to the literal 0.
C39_InsertAligned ==
    ins.built
    => /\ Cardinality(Placeholders(ins.vals, Len(ins.vals))) = Len(ins.params)
       /\ Len(ins.cols) = Len(ins.vals)
       /\ \A k \in 1..Len(ins.cols) : Bound(ins, k) = OwnValue[ins.cols[k]]
       /\ \A c \in {"priority", "max_attempts", "available_at"} :
              ins.has[c] <=> \E k \in 1..Len(ins.cols) : ins.cols[k] = c
       /\ \A c \in {"created_by_user_id", "correlation_id"} :
              (ins.has[c] /\ ins.given[c]) <=> \E k \in 1..Len(ins.cols) : ins.cols[k] = c

====
